---- MODULE Spec2Model ----
(***************************************************************************)
(* Flight search and booking engine of the Flask application under         *)
(* src/app: the purchase handler acquista_biglietto (passenger.py), the    *)
(* flight creation handler gestisci_voli (airline.py), the rate limiter    *)
(* (security.py) and the itinerary search search_flights (routes.py).      *)
(*                                                                         *)
(* The data store is modelled at the level the handlers use it: `voli`     *)
(* and `biglietti` hold the COMMITTED rows; the writes of a request that   *)
(* has not committed yet live in that request's session (updated_rows,     *)
(* form) and become visible to the others only at commit.  The row lock    *)
(* an UPDATE takes is held until the session commits or rolls back.        *)
(*                                                                         *)
(* Times are minutes; a date is a day number, a time of day is a minute    *)
(* of the day; prices are whole currency units.                            *)
(***************************************************************************)
EXTENDS Integers, Sequences, FiniteSets

(***************************************************************************)
(* Bounds of the model.                                                    *)
(***************************************************************************)
\* purchase requests running concurrently
NumRichieste == 2
\* flights the catalogue may hold
MaxVoli == 2

\* aircraft of the airline: aircraft a has a seats
Aerei == {1, 2}
Aeroporti == {1, 2, 3}
Giorni == {0, 1, 2}
Richieste == 1..NumRichieste

(***************************************************************************)
(* Program constants.                                                      *)
(***************************************************************************)
\* is_rate_limited('ticket_purchase', max_attempts=10)
MaxAttempts == 10
\* window_seconds=300
WindowSeconds == 300
\* timedelta(hours=2)
MinLayoverHours == 2

MinutiGiorno == 24 * 60

Classi == {"economy", "business", "first"}

VARIABLES
    voli,            \* table voli: committed rows, id_volo = index
    posti_iniziali,  \* posti_disponibili of each flight when it was created
    biglietti,       \* table biglietti: committed rows, id_biglietto = index
    pc,              \* per request: "idle", "reserved", "done"
    volo_id,         \* per request: the volo_id of the URL (0 before the call)
    form,            \* per request: the BigliettoForm and extra list it submitted
    updated_rows,    \* per request: rows matched by the conditional UPDATE
    esito,           \* per request: what the call reported
    id_biglietto,    \* per request: the ticket its commit inserted (0 if none)
    attempts,        \* security._attempts, keyed by passenger
    now,             \* time.time(), seconds
    query,           \* the last submitted FlightSearchForm and sort key
    results,         \* the results list search_flights renders
    ricerca,         \* the search request in progress, query by query
    inventario,      \* InventoryManager._df: the row of each product_id
    decisioni,       \* InventoryManager._decisions, keyed by product_id
    reorder_prompt   \* InventoryManager._reorder_prompt is not None

dbVars == <<voli, posti_iniziali, biglietti>>
reqVars == <<pc, volo_id, form, updated_rows, esito, id_biglietto>>
rateVars == <<attempts, now>>
searchVars == <<query, results, ricerca>>
invVars == <<inventario, decisioni, reorder_prompt>>
vars == <<voli, posti_iniziali, biglietti, pc, volo_id, form, updated_rows,
          esito, id_biglietto, attempts, now, query, results, ricerca,
          inventario, decisioni, reorder_prompt>>

(***************************************************************************)
(* Reference data.                                                         *)
(***************************************************************************)
\* Aereo.posti_totali (> 0 by check_posti_totali_positivi)
PostiTotali(a) == a

\* the passenger issuing request r
Passeggero(r) == r

\* table extra: id_extra -> costo, as init_db seeds it
Extra == [e \in {1, 2} |-> IF e = 1 THEN 50 ELSE 30]

IdVoli == 1..Len(voli)

(***************************************************************************)
(* datetime arithmetic                                                     *)
(***************************************************************************)
\* datetime.combine(date, time)
DatetimeCombine(d, t) == d * MinutiGiorno + t

\* datetime.date()
DateOf(dt) == dt \div MinutiGiorno

\* datetime.time()
TimeOf(dt) == dt % MinutiGiorno

(***************************************************************************)
(* Rate limiter (security.py), in-memory backend.                          *)
(***************************************************************************)
\* the timestamps of key k still inside the window
Recenti(k) == SelectSeq(attempts[k], LAMBDA ts : now - ts < WindowSeconds)

\* the mutant of is_rate_limited: attempts older than the window count
is_rate_limited_SenzaFinestra(k) == Len(attempts[k]) >= MaxAttempts

\* is_rate_limited: the answer (the pruning of the list is AttemptsDopoCheck)
is_rate_limited(k) == Len(Recenti(k)) >= MaxAttempts

AttemptsDopoCheck(k) == [attempts EXCEPT ![k] = Recenti(k)]

\* record_attempt applied to the attempts table a
record_attempt(a, k) == [a EXCEPT ![k] = Append(@, now)]

\* clear_attempts applied to the attempts table a
clear_attempts(a, k) == [a EXCEPT ![k] = << >>]

(***************************************************************************)
(* gestisci_voli: an airline creates a flight.                             *)
(***************************************************************************)
\* the rate-limit key of the airline user who submits the flight forms
Compagnia == 0

\* the data of the IntegerField posti_disponibili when the field is left
\* empty (None)
Nessuno == -1

\* the mutant of VoloFormValido: validate_aeroporto_destinazione is missing
VoloFormValido_SenzaAeroporti(f) ==
    /\ f.posti_disponibili # Nessuno
    /\ f.posti_disponibili >= 0
    /\ f.data_arrivo >= f.data_partenza
    /\ (f.data_arrivo = f.data_partenza => f.ora_arrivo > f.ora_partenza)
    /\ f.prezzo_economy > 0 /\ f.prezzo_business > 0 /\ f.prezzo_first > 0

\* VoloForm.validate(): NumberRange(min=0), validate_aeroporto_destinazione,
\* validate_data_arrivo, validate_ora_arrivo, NumberRange(min=0.01) on prices
VoloFormValido(f) ==
    /\ f.posti_disponibili # Nessuno
    /\ f.posti_disponibili >= 0
    /\ f.aeroporto_destinazione # f.aeroporto_partenza
    /\ f.data_arrivo >= f.data_partenza
    /\ (f.data_arrivo = f.data_partenza => f.ora_arrivo > f.ora_partenza)
    /\ f.prezzo_economy > 0 /\ f.prezzo_business > 0 /\ f.prezzo_first > 0

\* the mutant of PostiEntroCapienza: the capacity check is missing
PostiEntroCapienza_Assente(f) == TRUE

\* airline.py 211: the requested seats do not exceed the aircraft's
PostiEntroCapienza(f) ==
    ~(f.posti_disponibili # Nessuno /\ f.posti_disponibili > PostiTotali(f.id_aereo))

\* airline.py 220: a falsy request (None or 0) falls back to the aircraft's
\* seats
PostiAllaCreazione(f) ==
    IF f.posti_disponibili # Nessuno /\ f.posti_disponibili # 0
    THEN f.posti_disponibili
    ELSE PostiTotali(f.id_aereo)

NuovoVolo(f) ==
    [data_partenza |-> f.data_partenza, ora_partenza |-> f.ora_partenza,
     data_arrivo |-> f.data_arrivo, ora_arrivo |-> f.ora_arrivo,
     posti_disponibili |-> PostiAllaCreazione(f),
     id_aereo |-> f.id_aereo,
     aeroporto_partenza |-> f.aeroporto_partenza,
     aeroporto_destinazione |-> f.aeroporto_destinazione,
     prezzo_economy |-> f.prezzo_economy,
     prezzo_business |-> f.prezzo_business,
     prezzo_first |-> f.prezzo_first]

gestisci_voli(f) ==
    /\ Len(voli) < MaxVoli
    /\ IF is_rate_limited(Compagnia)
       THEN /\ attempts' = AttemptsDopoCheck(Compagnia)
            /\ UNCHANGED <<voli, posti_iniziali>>
       ELSE IF ~VoloFormValido(f)
       THEN /\ attempts' = record_attempt(AttemptsDopoCheck(Compagnia), Compagnia)
            /\ UNCHANGED <<voli, posti_iniziali>>
       ELSE IF ~PostiEntroCapienza(f)
       THEN /\ attempts' = AttemptsDopoCheck(Compagnia)
            /\ UNCHANGED <<voli, posti_iniziali>>
       ELSE /\ voli' = Append(voli, NuovoVolo(f))
            /\ posti_iniziali' = Append(posti_iniziali, PostiAllaCreazione(f))
            /\ attempts' = clear_attempts(AttemptsDopoCheck(Compagnia), Compagnia)
    /\ UNCHANGED <<biglietti, reqVars, now, searchVars>>
    /\ UNCHANGED invVars

(***************************************************************************)
(* acquista_biglietto: a passenger buys a ticket.                          *)
(***************************************************************************)
\* the mutant of BigliettoFormValido: classe is a free text field
BigliettoFormValido_Sempre(f) == TRUE

\* BigliettoForm.validate(): classe is one of the SelectField choices
BigliettoFormValido(f) == f.classe \in Classi

\* the mutant of RowLocked: the decrement does not wait for the row
RowLocked_Mai(r, v) == FALSE

\* the row of flight v carries the uncommitted UPDATE of another session
RowLocked(r, v) ==
    \E q \in Richieste : q # r /\ pc[q] = "reserved" /\ volo_id[q] = v

\* the mutant of UpdateRows: UPDATE without the posti_disponibili > 0 filter
UpdateRows_SenzaFiltro(v) == 1

\* passenger.py 113-121: rows matched by
\* UPDATE voli SET posti = posti - 1 WHERE id_volo = v AND posti > 0
UpdateRows(v) == IF voli[v].posti_disponibili > 0 THEN 1 ELSE 0

\* posti_disponibili of flight v as the session of request r sees it
PostiVisti(r, v) ==
    voli[v].posti_disponibili
        - (IF pc[r] = "reserved" /\ volo_id[r] = v THEN updated_rows[r] ELSE 0)

\* passenger.py 128-133: prezzi.get(classe, prezzo_economy)
PrezzoClasse(v, classe) ==
    CASE classe = "economy" -> voli[v].prezzo_economy
      [] classe = "business" -> voli[v].prezzo_business
      [] classe = "first" -> voli[v].prezzo_first
      [] OTHER -> voli[v].prezzo_economy

\* the mutant of ExtraTrovati: the loop stops at the first id not found
RECURSIVE ExtraTrovati_FinoAlPrimoIgnoto(_)
ExtraTrovati_FinoAlPrimoIgnoto(ids) ==
    IF ids = << >> \/ Head(ids) \notin DOMAIN Extra THEN << >>
    ELSE <<Head(ids)>> \o ExtraTrovati_FinoAlPrimoIgnoto(Tail(ids))

\* passenger.py 148-151: the requested extras that exist, in request order
ExtraTrovati(ids) == SelectSeq(ids, LAMBDA e : e \in DOMAIN Extra)

RECURSIVE SommaCosti(_)
SommaCosti(ids) ==
    IF ids = << >> THEN 0 ELSE Extra[Head(ids)] + SommaCosti(Tail(ids))

\* the mutant of AssociazioneDuplicata: biglietti_extra has no primary key
AssociazioneDuplicata_Mai(ids) == FALSE

\* passenger.py 148-151 with models.py 7-10: Extra.query.get flushes the
\* session before each lookup, so every append of an extra becomes its own
\* INSERT into biglietti_extra; an extra appended twice is a second row
\* with the same (id_biglietto, id_extra) primary key
AssociazioneDuplicata(ids) ==
    \E i, j \in 1..Len(ids) : i < j /\ ids[i] = ids[j] /\ ids[i] \in DOMAIN Extra

\* passenger.py 136-155: the ticket the session adds; prezzo grows by the
\* cost of the extra found for each entry of the list
NuovoBiglietto(r) ==
    [prezzo |-> PrezzoClasse(volo_id[r], form[r].classe)
                    + SommaCosti(ExtraTrovati(form[r].extra)),
     classe |-> form[r].classe,
     id_passeggero |-> Passeggero(r),
     id_volo |-> volo_id[r],
     extra |-> {ExtraTrovati(form[r].extra)[i] :
                    i \in 1..Len(ExtraTrovati(form[r].extra))}]

\* models.py 202-205: check_prezzo_positivo, check_classe_valida
VincoliBiglietto(b) == b.prezzo > 0 /\ b.classe \in Classi

NoForm == [classe |-> "", extra |-> << >>]

\* the call returns with its report
Fine(r, e) ==
    /\ pc' = [pc EXCEPT ![r] = "done"]
    /\ esito' = [esito EXCEPT ![r] = e]

\* the request goes on to the ticket, holding the row it updated
Reserved(r, f) ==
    /\ pc' = [pc EXCEPT ![r] = "reserved"]
    /\ UNCHANGED esito

\* the mutant of SoldOut: the return of line 125 is missing
SoldOut_SenzaReturn(r, f) == Reserved(r, f)

\* passenger.py 122-125: no row matched: rollback, report, return
SoldOut(r, f) == Fine(r, "SoldOut")

\* passenger.py 85-125: lookup, rate limit, validation, reload and the
\* conditional UPDATE.  fault: the reload or the UPDATE raises.
Acquista(r, v, f, fault) ==
    /\ pc[r] = "idle"
    /\ volo_id' = [volo_id EXCEPT ![r] = v]
    /\ form' = [form EXCEPT ![r] = f]
    /\ UNCHANGED <<dbVars, id_biglietto, now, searchVars>>
    /\ IF v \notin IdVoli
       THEN /\ Fine(r, "FlightNotFound")
            /\ UNCHANGED <<updated_rows, attempts>>
       ELSE IF is_rate_limited(Passeggero(r))
       THEN /\ Fine(r, "RateLimited")
            /\ attempts' = AttemptsDopoCheck(Passeggero(r))
            /\ UNCHANGED updated_rows
       ELSE IF ~BigliettoFormValido(f)
       THEN /\ Fine(r, "Invalid")
            /\ attempts' = record_attempt(AttemptsDopoCheck(Passeggero(r)), Passeggero(r))
            /\ UNCHANGED updated_rows
       ELSE IF fault
       THEN /\ Fine(r, "PurchaseFailed")
            /\ attempts' = record_attempt(AttemptsDopoCheck(Passeggero(r)), Passeggero(r))
            /\ UNCHANGED updated_rows
       ELSE /\ ~RowLocked(r, v)
            /\ updated_rows' = [updated_rows EXCEPT ![r] = UpdateRows(v)]
            /\ attempts' = AttemptsDopoCheck(Passeggero(r))
            /\ IF UpdateRows(v) = 0
               THEN SoldOut(r, f)
               ELSE Reserved(r, f)
    /\ UNCHANGED invVars

\* the mutant of CommitSessione: the UPDATE is not limited to id_volo
CommitSessione_OgniVolo(r) ==
    /\ voli' = [v \in 1..Len(voli) |->
                    [voli[v] EXCEPT !.posti_disponibili =
                         IF @ > 0 THEN @ - updated_rows[r] ELSE @]]
    /\ biglietti' = Append(biglietti, NuovoBiglietto(r))
    /\ id_biglietto' = [id_biglietto EXCEPT ![r] = Len(biglietti) + 1]

\* db.session.commit() of the session of request r: the decrement and the
\* ticket become visible together
CommitSessione(r) ==
    /\ voli' = [voli EXCEPT ![volo_id[r]].posti_disponibili = @ - updated_rows[r]]
    /\ biglietti' = Append(biglietti, NuovoBiglietto(r))
    /\ id_biglietto' = [id_biglietto EXCEPT ![r] = Len(biglietti) + 1]

\* passenger.py 127-167: ticket, extras, commit, success report; the
\* inserts go through when the constraints of the tables hold
Commit(r) ==
    /\ pc[r] = "reserved"
    /\ VincoliBiglietto(NuovoBiglietto(r))
    /\ ~AssociazioneDuplicata(form[r].extra)
    /\ CommitSessione(r)
    /\ Fine(r, "Ticket")
    /\ attempts' = clear_attempts(attempts, Passeggero(r))
    /\ UNCHANGED <<posti_iniziali, volo_id, form, updated_rows, now, searchVars>>
    /\ UNCHANGED invVars

\* the mutant of Errore: the except branch leaves the decrement in place
Errore_SenzaRollback(r) ==
    /\ pc[r] = "reserved"
    /\ voli' = [voli EXCEPT ![volo_id[r]].posti_disponibili = @ - updated_rows[r]]
    /\ Fine(r, "PurchaseFailed")
    /\ attempts' = record_attempt(attempts, Passeggero(r))
    /\ UNCHANGED <<posti_iniziali, biglietti, volo_id, form, updated_rows,
                   id_biglietto, now, searchVars>>
    /\ UNCHANGED invVars

\* the mutant of Errore: the except branch gives a seat back on top of the
\* rollback
Errore_ConRilascio(r) ==
    /\ pc[r] = "reserved"
    /\ voli' = [voli EXCEPT ![volo_id[r]].posti_disponibili = @ + updated_rows[r]]
    /\ Fine(r, "PurchaseFailed")
    /\ attempts' = record_attempt(attempts, Passeggero(r))
    /\ UNCHANGED <<posti_iniziali, biglietti, volo_id, form, updated_rows,
                   id_biglietto, now, searchVars>>
    /\ UNCHANGED invVars

\* passenger.py 168-178 entered from 127-157 (the insert, the extras lookup
\* or the commit raises, for a storage fault or a violated constraint):
\* db.session.rollback() drops the decrement and the ticket of the session
Errore(r) ==
    /\ pc[r] = "reserved"
    /\ Fine(r, "PurchaseFailed")
    /\ attempts' = record_attempt(attempts, Passeggero(r))
    /\ UNCHANGED <<dbVars, volo_id, form, updated_rows, id_biglietto, now,
                   searchVars>>
    /\ UNCHANGED invVars

\* passenger.py 168-178 entered from 159-166: the commit of line 157 went
\* through and a later statement of the try block raises (the refresh of
\* the expired biglietto.id_biglietto, clear_attempts); the rollback finds
\* nothing to undo
ErroreDopoCommit(r) ==
    /\ pc[r] = "reserved"
    /\ VincoliBiglietto(NuovoBiglietto(r))
    /\ ~AssociazioneDuplicata(form[r].extra)
    /\ CommitSessione(r)
    /\ Fine(r, "PurchaseFailed")
    /\ attempts' = record_attempt(attempts, Passeggero(r))
    /\ UNCHANGED <<posti_iniziali, volo_id, form, updated_rows, now, searchVars>>
    /\ UNCHANGED invVars

(***************************************************************************)
(* The booking specification: an empty catalogue, flights are created and  *)
(* NumRichieste purchase requests run concurrently.                        *)
(***************************************************************************)
\* query.sort: the values of the URL argument sort, none when it is absent
NoQuery == [partenza |-> 0, destinazione |-> 0, data |-> 0, sort |-> << >>]

\* no search request: pc is its place in the handler, q its form,
\* first_leg the first legs still to visit, parziali the results appended
\* so far; inizio and fine count the tickets committed when its first and
\* its latest query ran
NoRicerca ==
    [pc |-> "idle", q |-> NoQuery, first_leg |-> << >>, parziali |-> << >>,
     inizio |-> 0, fine |-> 0]

(***************************************************************************)
(* inventory_tracker: stock status and reorders.                           *)
(***************************************************************************)
\* the largest quantity of a row
MaxQuantita == 3

\* the product ids of the loaded table (load_inventory_csv rejects
\* duplicates)
Prodotti == {1, 2}

\* (reorder_point, critical_point) of the rows: apart, equal, and with the
\* critical point above the reorder point
SoglieRighe == {<<2, 1>>, <<1, 1>>, <<1, 2>>}

\* the rows product p can have when the table is loaded; reorder_quantity
\* 0 also stands for a table without the column (row.get(..., 0))
Righe(p) ==
    {[product_id |-> p, quantity |-> q, reorder_point |-> t[1],
      critical_point |-> t[2], reorder_quantity |-> n, status |-> ""] :
         q \in 0..MaxQuantita, t \in SoglieRighe, n \in 0..2}

\* no inventory is loaded
NessunInventario ==
    /\ inventario = << >>
    /\ decisioni = << >>
    /\ reorder_prompt = FALSE

StatusThresholds(row) ==
    [reorder_point |-> row.reorder_point, critical_point |-> row.critical_point]

\* StatusThresholds.validate() does not raise
validate(t) ==
    /\ t.critical_point >= 0 /\ t.reorder_point >= 0
    /\ t.critical_point <= t.reorder_point

\* the mutant of classify_stock_level: the reorder point is exclusive
classify_stock_level_RiordinoEscluso(quantity, t) ==
    IF quantity <= t.critical_point THEN "red"
    ELSE IF quantity < t.reorder_point THEN "orange"
    ELSE "green"

\* status.py 75-80, for thresholds that validate
classify_stock_level(quantity, t) ==
    IF quantity <= t.critical_point THEN "red"
    ELSE IF quantity <= t.reorder_point THEN "orange"
    ELSE "green"

InventoryDecision(status, auto_reordered, reorder_confirmed) ==
    [status |-> status, auto_reordered |-> auto_reordered,
     reorder_confirmed |-> reorder_confirmed]

\* the mutant of should_reorder: the automatic reorder is ignored
should_reorder_SenzaAuto(d) ==
    d.status \in {"red", "orange"} /\ d.reorder_confirmed

should_reorder(d) ==
    d.status \in {"red", "orange"} /\ (d.auto_reordered \/ d.reorder_confirmed)

\* _make_decision; risposta: what the prompt answers if it is asked
make_decision(status, risposta) ==
    IF status = "green" THEN InventoryDecision(status, FALSE, FALSE)
    ELSE IF status = "red" THEN InventoryDecision(status, TRUE, FALSE)
    ELSE IF ~reorder_prompt THEN InventoryDecision(status, FALSE, FALSE)
    ELSE InventoryDecision(status, FALSE, risposta)

StatusDi(row) == classify_stock_level(row.quantity, StatusThresholds(row))

\* evaluate(); risposte: the answer of the prompt for each product.  A row
\* whose thresholds do not validate makes the call raise before anything
\* is assigned.
evaluate(risposte) ==
    /\ inventario # << >>
    /\ IF \A p \in Prodotti : validate(StatusThresholds(inventario[p]))
       THEN /\ decisioni' = [p \in Prodotti |->
                                make_decision(StatusDi(inventario[p]), risposte[p])]
            /\ inventario' = [p \in Prodotti |->
                                 [inventario[p] EXCEPT !.status = StatusDi(inventario[p])]]
       ELSE UNCHANGED <<inventario, decisioni>>
    /\ UNCHANGED <<reorder_prompt, dbVars, reqVars, rateVars, searchVars>>

\* the quantity of product p after apply_reorders()
QuantitaRiordinata(p) ==
    IF p \in DOMAIN decisioni /\ should_reorder(decisioni[p])
    THEN inventario[p].quantity + inventario[p].reorder_quantity
    ELSE inventario[p].quantity

apply_reorders ==
    /\ inventario # << >>
    /\ \A p \in Prodotti : QuantitaRiordinata(p) <= MaxQuantita
    /\ inventario' = [p \in Prodotti |->
                         [inventario[p] EXCEPT !.quantity = QuantitaRiordinata(p)]]
    /\ UNCHANGED <<decisioni, reorder_prompt, dbVars, reqVars, rateVars, searchVars>>

InitRichieste ==
    /\ pc = [r \in Richieste |-> "idle"]
    /\ volo_id = [r \in Richieste |-> 0]
    /\ form = [r \in Richieste |-> NoForm]
    /\ updated_rows = [r \in Richieste |-> 0]
    /\ esito = [r \in Richieste |-> ""]
    /\ id_biglietto = [r \in Richieste |-> 0]
    /\ attempts = [k \in Richieste \cup {Compagnia} |-> << >>]
    /\ now = 0

Init ==
    /\ voli = << >>
    /\ posti_iniziali = << >>
    /\ biglietti = << >>
    /\ InitRichieste
    /\ query = NoQuery
    /\ results = << >>
    /\ ricerca = NoRicerca
    /\ NessunInventario

\* the flight forms submitted in the booking specification: one route and
\* schedule, every aircraft, every seat request up to one above the largest
VoloFormSpec ==
    [data_partenza : {0}, ora_partenza : {8 * 60},
     data_arrivo : {0}, ora_arrivo : {10 * 60},
     posti_disponibili : 0..3,
     id_aereo : Aerei,
     aeroporto_partenza : {1}, aeroporto_destinazione : {2},
     prezzo_economy : {100}, prezzo_business : {150}, prezzo_first : {250}]

BigliettoFormSpec == [classe : {"economy", ""}, extra : {<< >>}]

Next ==
    \/ \E f \in VoloFormSpec : gestisci_voli(f)
    \/ \E r \in Richieste, v \in 1..MaxVoli, f \in BigliettoFormSpec,
          fault \in BOOLEAN : Acquista(r, v, f, fault)
    \/ \E r \in Richieste : Commit(r)
    \/ \E r \in Richieste : Errore(r)
    \/ \E r \in Richieste : ErroreDopoCommit(r)

Spec == Init /\ [][Next]_vars

(***************************************************************************)
(* The purchase specification: one flight with two seats and the fares of  *)
(* VoloFormSpec; the requests submit every kind of class and extra list.   *)
(***************************************************************************)
\* the flight: created with no seat count on the two-seat aircraft
VoloAcquisto ==
    NuovoVolo([data_partenza |-> 0, ora_partenza |-> 8 * 60,
               data_arrivo |-> 0, ora_arrivo |-> 10 * 60,
               posti_disponibili |-> 0, id_aereo |-> 2,
               aeroporto_partenza |-> 1, aeroporto_destinazione |-> 2,
               prezzo_economy |-> 100, prezzo_business |-> 150,
               prezzo_first |-> 250])

InitAcquisto ==
    /\ voli = <<VoloAcquisto>>
    /\ posti_iniziali = <<VoloAcquisto.posti_disponibili>>
    /\ biglietti = << >>
    /\ InitRichieste
    /\ query = NoQuery
    /\ results = << >>
    /\ ricerca = NoRicerca
    /\ NessunInventario

\* the submitted forms: each class, an empty and an unknown class; extra
\* lists with known ids (1, 2), an unknown id (3) and a repeated id
BigliettoFormAcquisto ==
    {[classe |-> "economy", extra |-> << >>],
     [classe |-> "economy", extra |-> <<1>>],
     [classe |-> "economy", extra |-> <<3>>],
     [classe |-> "economy", extra |-> <<3, 1>>],
     [classe |-> "economy", extra |-> <<1, 1>>],
     [classe |-> "business", extra |-> <<1, 2>>],
     [classe |-> "business", extra |-> <<1, 3, 2>>],
     [classe |-> "first", extra |-> <<2>>],
     [classe |-> "", extra |-> << >>],
     [classe |-> "premium", extra |-> <<1>>]}

NextAcquisto ==
    \/ \E r \in Richieste, f \in BigliettoFormAcquisto : Acquista(r, 1, f, FALSE)
    \/ \E r \in Richieste : Commit(r)
    \/ \E r \in Richieste : Errore(r)

SpecAcquisto == InitAcquisto /\ [][NextAcquisto]_vars

(***************************************************************************)
(* search_flights: direct flights and one-stop connections.                *)
(***************************************************************************)
\* FlightSearchForm.validate(): DataRequired on the airports (an id of 0 is
\* no airport), validate_aeroporto_destinazione
FlightSearchFormValido(q) ==
    /\ q.partenza \in Aeroporti
    /\ q.destinazione \in Aeroporti
    /\ q.destinazione # q.partenza

\* the rows of voli in the order a query without ORDER BY returns them
RigheVoli == [i \in 1..Len(voli) |-> i]

\* datetime.combine(volo.data_partenza, volo.ora_partenza)
DatetimePartenza(v) == DatetimeCombine(voli[v].data_partenza, voli[v].ora_partenza)

\* datetime.combine(volo.data_arrivo, volo.ora_arrivo)
DatetimeArrivo(v) == DatetimeCombine(voli[v].data_arrivo, voli[v].ora_arrivo)

\* the mutant of FiltroDiretto: seats are not looked at
FiltroDiretto_SenzaPosti(v, q) ==
    /\ voli[v].aeroporto_partenza = q.partenza
    /\ voli[v].aeroporto_destinazione = q.destinazione
    /\ voli[v].data_partenza = q.data

\* routes.py 37-44: the filter of the direct query
FiltroDiretto(v, q) ==
    /\ voli[v].aeroporto_partenza = q.partenza
    /\ voli[v].aeroporto_destinazione = q.destinazione
    /\ voli[v].data_partenza = q.data
    /\ voli[v].posti_disponibili > 0

voli_diretti(q) == SelectSeq(RigheVoli, LAMBDA v : FiltroDiretto(v, q))

\* routes.py 56-62: the filter of the first-leg query
FiltroFirstLeg(v, q) ==
    /\ voli[v].aeroporto_partenza = q.partenza
    /\ voli[v].data_partenza = q.data
    /\ voli[v].posti_disponibili > 0

first_leg(q) == SelectSeq(RigheVoli, LAMBDA v : FiltroFirstLeg(v, q))

\* routes.py 66-68: datetime_arrivo1 + timedelta(hours=2)
min_departure_time(volo1) == DatetimeArrivo(volo1) + MinLayoverHours * 60

\* the mutant of FiltroSecondLeg: the second leg may leave from anywhere
FiltroSecondLeg_SenzaScalo(v, volo1, q) ==
    /\ voli[v].aeroporto_destinazione = q.destinazione
    /\ voli[v].data_partenza >= DateOf(min_departure_time(volo1))
    /\ voli[v].posti_disponibili > 0

\* the mutant of FiltroSecondLeg: only the day of the earliest departure
FiltroSecondLeg_StessoGiorno(v, volo1, q) ==
    /\ voli[v].aeroporto_partenza = voli[volo1].aeroporto_destinazione
    /\ voli[v].aeroporto_destinazione = q.destinazione
    /\ voli[v].data_partenza = DateOf(min_departure_time(volo1))
    /\ voli[v].posti_disponibili > 0

\* routes.py 71-78: the filter of the second-leg query of volo1
FiltroSecondLeg(v, volo1, q) ==
    /\ voli[v].aeroporto_partenza = voli[volo1].aeroporto_destinazione
    /\ voli[v].aeroporto_destinazione = q.destinazione
    /\ voli[v].data_partenza >= DateOf(min_departure_time(volo1))
    /\ voli[v].posti_disponibili > 0

second_leg(volo1, q) == SelectSeq(RigheVoli, LAMBDA v : FiltroSecondLeg(v, volo1, q))

\* the mutant of LayoverOk: a layover of exactly two hours is refused
LayoverOk_Stretto(volo1, volo2) ==
    DatetimePartenza(volo2) > min_departure_time(volo1)

\* routes.py 81-84: datetime_partenza2 >= min_departure_time
LayoverOk(volo1, volo2) ==
    DatetimePartenza(volo2) >= min_departure_time(volo1)

\* routes.py 47-52: a direct result
Diretto(v) ==
    [type |-> "direct", voli |-> <<v>>, stops |-> 0, layover |-> 0,
     prezzo |-> voli[v].prezzo_economy]

\* the mutant of Coincidenza: the fare of the first leg only
Coincidenza_PrimaTratta(volo1, volo2) ==
    [type |-> "connecting", voli |-> <<volo1, volo2>>, stops |-> 1,
     layover |-> DatetimePartenza(volo2) - DatetimeArrivo(volo1),
     prezzo |-> voli[volo1].prezzo_economy]

\* routes.py 85-93: a connecting result; layover in minutes
Coincidenza(volo1, volo2) ==
    [type |-> "connecting", voli |-> <<volo1, volo2>>, stops |-> 1,
     layover |-> DatetimePartenza(volo2) - DatetimeArrivo(volo1),
     prezzo |-> voli[volo1].prezzo_economy + voli[volo2].prezzo_economy]

\* routes.py 46-52: one result per direct flight
RECURSIVE RisultatiDiretti(_)
RisultatiDiretti(vs) ==
    IF vs = << >> THEN << >>
    ELSE <<Diretto(Head(vs))>> \o RisultatiDiretti(Tail(vs))

\* routes.py 80-93: the inner loop over the second legs of volo1
RECURSIVE CoincidenzeDi(_, _)
CoincidenzeDi(volo1, vs) ==
    IF vs = << >> THEN << >>
    ELSE (IF LayoverOk(volo1, Head(vs))
          THEN <<Coincidenza(volo1, Head(vs))>> ELSE << >>)
         \o CoincidenzeDi(volo1, Tail(vs))

\* routes.py 64-93: the outer loop over the first legs
RECURSIVE RisultatiCoincidenze(_, _)
RisultatiCoincidenze(vs, q) ==
    IF vs = << >> THEN << >>
    ELSE CoincidenzeDi(Head(vs), second_leg(Head(vs), q))
         \o RisultatiCoincidenze(Tail(vs), q)

\* the mutant of Durata: a connection counts its time in the air only
Durata_SenzaScalo(x) ==
    IF x.type = "direct"
    THEN DatetimeArrivo(x.voli[1]) - DatetimePartenza(x.voli[1])
    ELSE (DatetimeArrivo(x.voli[1]) - DatetimePartenza(x.voli[1]))
             + (DatetimeArrivo(x.voli[2]) - DatetimePartenza(x.voli[2]))

\* routes.py 101-111: result['durata'], minutes
Durata(x) ==
    IF x.type = "direct"
    THEN DatetimeArrivo(x.voli[1]) - DatetimePartenza(x.voli[1])
    ELSE DatetimeArrivo(x.voli[2]) - DatetimePartenza(x.voli[1])

\* the mutant of Chiave: by stops, most stops first
Chiave_SosteDecrescenti(x, sort_by) ==
    CASE sort_by = "prezzo" -> x.prezzo
      [] sort_by = "durata" -> Durata(x)
      [] sort_by = "soste" -> 0 - x.stops
      [] OTHER -> 0

\* the key of routes.py 98, 112, 114
Chiave(x, sort_by) ==
    CASE sort_by = "prezzo" -> x.prezzo
      [] sort_by = "durata" -> Durata(x)
      [] sort_by = "soste" -> x.stops
      [] OTHER -> 0

\* the mutant of Inserisci: x goes before the elements with its key
Inserisci_PrimaDegliUguali(xs, x, sort_by) ==
    LET n == Cardinality({i \in 1..Len(xs) : Chiave(xs[i], sort_by) < Chiave(x, sort_by)})
    IN  SubSeq(xs, 1, n) \o <<x>> \o SubSeq(xs, n + 1, Len(xs))

\* x put after the elements of the sorted xs whose key is not larger
Inserisci(xs, x, sort_by) ==
    LET n == Cardinality({i \in 1..Len(xs) : Chiave(xs[i], sort_by) <= Chiave(x, sort_by)})
    IN  SubSeq(xs, 1, n) \o <<x>> \o SubSeq(xs, n + 1, Len(xs))

\* list.sort(key=...): ascending and stable
RECURSIVE Ordina(_, _)
Ordina(xs, sort_by) ==
    IF xs = << >> THEN << >>
    ELSE Inserisci(Ordina(SubSeq(xs, 1, Len(xs) - 1), sort_by), xs[Len(xs)], sort_by)

\* the mutant of SortResults: a key that is not recognised sorts by price
SortResults_DefaultPrezzo(xs, sort_by) ==
    IF sort_by \in {"durata", "soste"} THEN Ordina(xs, sort_by)
    ELSE Ordina(xs, "prezzo")

\* routes.py 95-114
SortResults(xs, sort_by) ==
    IF sort_by \in {"prezzo", "durata", "soste"} THEN Ordina(xs, sort_by) ELSE xs

\* the mutant of SortBy: no default for an absent argument
SortBy_SenzaDefault(q) == IF q.sort = << >> THEN "" ELSE Head(q.sort)

\* routes.py 96: request.args.get('sort', 'prezzo')
SortBy(q) == IF q.sort = << >> THEN "prezzo" ELSE Head(q.sort)

\* routes.py 27-114: the list the handler renders for the submitted form q
SearchResults(q) ==
    IF FlightSearchFormValido(q)
    THEN SortResults(RisultatiDiretti(voli_diretti(q))
                         \o RisultatiCoincidenze(first_leg(q), q),
                     SortBy(q))
    ELSE << >>

\* the whole handler, for the one search request of a behaviour, on a
\* catalogue no request is writing
search_flights(q) ==
    /\ query = NoQuery
    /\ query' = q
    /\ results' = SearchResults(q)
    /\ UNCHANGED <<dbVars, reqVars, rateVars, ricerca>>
    /\ UNCHANGED invVars

\* the mutant of SolaLettura: the search holds a seat of the first flight
SolaLettura_ConPrenotazione ==
    /\ voli' = IF voli # << >> /\ voli[1].posti_disponibili > 0
               THEN [voli EXCEPT ![1].posti_disponibili = @ - 1]
               ELSE voli
    /\ UNCHANGED <<posti_iniziali, biglietti, reqVars, rateVars>>

\* routes.py 17-116: the handler issues SELECTs only and never commits
SolaLettura == UNCHANGED <<dbVars, reqVars, rateVars>>

\* routes.py 95-116: sort and render; the request is over
Pubblica(xs) ==
    /\ query' = ricerca.q
    /\ results' = SortResults(xs, SortBy(ricerca.q))
    /\ ricerca' = [ricerca EXCEPT !.pc = "done", !.first_leg = << >>,
                                  !.parziali = << >>, !.fine = Len(biglietti)]

\* routes.py 20-52: validation, the direct query and its results
RicercaDiretti(q) ==
    /\ ricerca.pc = "idle"
    /\ SolaLettura
    /\ IF FlightSearchFormValido(q)
       THEN /\ ricerca' = [pc |-> "first", q |-> q, first_leg |-> << >>,
                           parziali |-> RisultatiDiretti(voli_diretti(q)),
                           inizio |-> Len(biglietti), fine |-> Len(biglietti)]
            /\ UNCHANGED <<query, results>>
       ELSE /\ query' = q
            /\ results' = << >>
            /\ ricerca' = [NoRicerca EXCEPT !.pc = "done", !.q = q,
                                            !.inizio = Len(biglietti),
                                            !.fine = Len(biglietti)]
    /\ UNCHANGED invVars

\* routes.py 56-62: the first-leg query (and 95-116 when it is empty)
RicercaFirstLeg ==
    /\ ricerca.pc = "first"
    /\ SolaLettura
    /\ IF first_leg(ricerca.q) = << >>
       THEN Pubblica(ricerca.parziali)
       ELSE /\ ricerca' = [ricerca EXCEPT !.pc = "second",
                                          !.first_leg = first_leg(ricerca.q),
                                          !.fine = Len(biglietti)]
            /\ UNCHANGED <<query, results>>
    /\ UNCHANGED invVars

\* routes.py 64-93: one turn of the loop over the first legs: the
\* second-leg query of volo1 and its connections (and 95-116 after the
\* last turn)
RicercaSecondLeg ==
    /\ ricerca.pc = "second"
    /\ SolaLettura
    /\ LET volo1 == Head(ricerca.first_leg)
           trovati == ricerca.parziali
                          \o CoincidenzeDi(volo1, second_leg(volo1, ricerca.q))
       IN  IF Tail(ricerca.first_leg) = << >>
           THEN Pubblica(trovati)
           ELSE /\ ricerca' = [ricerca EXCEPT !.first_leg = Tail(@),
                                              !.parziali = trovati,
                                              !.fine = Len(biglietti)]
                /\ UNCHANGED <<query, results>>
    /\ UNCHANGED invVars

(***************************************************************************)
(* The search specification: any catalogue of at most MaxVoli flights,     *)
(* seeded the way init_db seeds flights (departure, duration, fares from   *)
(* the duration) and with some of the one-seat flights sold; searches run  *)
(* on it.                                                                  *)
(***************************************************************************)
Rotte == {<<1, 2>>, <<1, 3>>, <<3, 2>>}

\* flight durations, minutes: with every departure at 08:00 a flight of
\* 22h leaves exactly two hours before the next day's departures
Durate == {22 * 60, 22 * 60 + 1}

OraPartenza == 8 * 60

\* init_db.py 121-147: a seeded flight
VoloSeminato(rotta, giorno, durata, posti) ==
    [data_partenza |-> giorno, ora_partenza |-> OraPartenza,
     data_arrivo |-> DateOf(DatetimeCombine(giorno, OraPartenza) + durata),
     ora_arrivo |-> TimeOf(DatetimeCombine(giorno, OraPartenza) + durata),
     posti_disponibili |-> posti,
     id_aereo |-> 1,
     aeroporto_partenza |-> rotta[1],
     aeroporto_destinazione |-> rotta[2],
     prezzo_economy |-> (durata * 50) \div 60,
     prezzo_business |-> (durata * 75) \div 60,
     prezzo_first |-> (durata * 125) \div 60]

DominioVoli ==
    {VoloSeminato(rotta, giorno, durata, posti) :
        rotta \in Rotte, giorno \in Giorni, durata \in Durate,
        posti \in 0..PostiTotali(1)}

Cataloghi == UNION {[1..n -> DominioVoli] : n \in 0..MaxVoli}

\* the tickets of the seats a catalogue has sold, in flight order
RECURSIVE BigliettiVenduti(_, _)
BigliettiVenduti(cat, v) ==
    IF v > Len(cat) THEN << >>
    ELSE (IF cat[v].posti_disponibili < PostiTotali(cat[v].id_aereo)
          THEN <<[prezzo |-> cat[v].prezzo_economy, classe |-> "economy",
                  id_passeggero |-> 1, id_volo |-> v, extra |-> {}]>>
          ELSE << >>)
         \o BigliettiVenduti(cat, v + 1)

InitSearch ==
    /\ voli \in Cataloghi
    /\ posti_iniziali = [v \in 1..Len(voli) |-> PostiTotali(voli[v].id_aereo)]
    /\ biglietti = BigliettiVenduti(voli, 1)
    /\ InitRichieste
    /\ query = NoQuery
    /\ results = << >>
    /\ ricerca = NoRicerca
    /\ NessunInventario

QuerySearch ==
    [partenza : Aeroporti, destinazione : Aeroporti, data : Giorni,
     sort : {<<"prezzo">>}]

NextSearch == \E q \in QuerySearch : search_flights(q)

SpecSearch == InitSearch /\ [][NextSearch]_vars

(***************************************************************************)
(* The rate-limit specification: one passenger posts purchase after        *)
(* purchase for a flight of two seats while the clock advances.            *)
(***************************************************************************)
\* steps of the clock
MaxTick == 3

\* seconds of a step of the clock: half the window
PassoOrologio == WindowSeconds \div 2

\* time.time() has moved on
Tick ==
    /\ now < MaxTick * PassoOrologio
    /\ now' = now + PassoOrologio
    /\ UNCHANGED <<dbVars, reqVars, attempts, searchVars>>
    /\ UNCHANGED invVars

\* the passenger of request r, answered, posts the purchase form again
NuovaRichiesta(r) ==
    /\ pc[r] = "done"
    /\ pc' = [pc EXCEPT ![r] = "idle"]
    /\ volo_id' = [volo_id EXCEPT ![r] = 0]
    /\ form' = [form EXCEPT ![r] = NoForm]
    /\ updated_rows' = [updated_rows EXCEPT ![r] = 0]
    /\ esito' = [esito EXCEPT ![r] = ""]
    /\ id_biglietto' = [id_biglietto EXCEPT ![r] = 0]
    /\ UNCHANGED <<dbVars, rateVars, searchVars>>
    /\ UNCHANGED invVars

NextLimite ==
    \/ \E v \in 1..2, f \in BigliettoFormSpec, fault \in BOOLEAN :
           Acquista(1, v, f, fault)
    \/ Commit(1)
    \/ Errore(1)
    \/ NuovaRichiesta(1)
    \/ Tick

SpecLimite == InitAcquisto /\ [][NextLimite]_vars

(***************************************************************************)
(* The missing-flight specification: purchases for a flight id that was    *)
(* never created, and purchases caught by a reset of the store.            *)
(***************************************************************************)
\* passenger.py 85-110 and 168-178 with init_db.py 19-23 in between: the
\* flight is found at line 89, the limit and the form pass, db.drop_all()
\* and db.create_all() of a reset leave the tables empty, and the reload of
\* line 110 raises NotFound inside the try block, which the except branch
\* catches
AcquistaDuranteReset(r, v, f) ==
    /\ pc[r] = "idle"
    /\ v \in IdVoli
    /\ ~is_rate_limited(Passeggero(r))
    /\ BigliettoFormValido(f)
    /\ \A q \in Richieste : pc[q] # "reserved"
    /\ voli' = << >>
    /\ posti_iniziali' = << >>
    /\ biglietti' = << >>
    /\ volo_id' = [volo_id EXCEPT ![r] = v]
    /\ form' = [form EXCEPT ![r] = f]
    /\ Fine(r, "PurchaseFailed")
    /\ attempts' = record_attempt(AttemptsDopoCheck(Passeggero(r)), Passeggero(r))
    /\ UNCHANGED <<updated_rows, id_biglietto, now, searchVars>>
    /\ UNCHANGED invVars

NextNonTrovato ==
    \/ \E r \in Richieste, v \in 1..2, f \in BigliettoFormAcquisto,
          fault \in BOOLEAN : Acquista(r, v, f, fault)
    \/ \E r \in Richieste : Commit(r)
    \/ \E r \in Richieste : Errore(r)
    \/ \E r \in Richieste, f \in BigliettoFormAcquisto :
          AcquistaDuranteReset(r, 1, f)

SpecNonTrovato == InitAcquisto /\ [][NextNonTrovato]_vars

(***************************************************************************)
(* The inventory specification: a table of two products is loaded, with or *)
(* without a reorder prompt, then evaluated and reordered in any order.    *)
(***************************************************************************)
InitInventario ==
    /\ voli = << >>
    /\ posti_iniziali = << >>
    /\ biglietti = << >>
    /\ InitRichieste
    /\ query = NoQuery
    /\ results = << >>
    /\ ricerca = NoRicerca
    /\ inventario \in {<<r1, r2>> : r1 \in Righe(1), r2 \in Righe(2)}
    /\ decisioni = << >>
    /\ reorder_prompt \in BOOLEAN

Risposte == [Prodotti -> BOOLEAN]

NextInventario ==
    \/ \E risposte \in Risposte : evaluate(risposte)
    \/ apply_reorders

SpecInventario == InitInventario /\ [][NextInventario]_vars

(***************************************************************************)
(* The flight-management specification: the airline submits flight forms,  *)
(* valid and invalid, and the catalogue it builds is searched.             *)
(***************************************************************************)
\* the routes of the submitted forms: a direct one, the two legs of a
\* connection, and two that leave and land at the same airport
RotteVoli == {<<1, 2>>, <<1, 3>>, <<3, 2>>, <<1, 1>>, <<2, 2>>}

\* the schedules of the submitted forms, far enough apart for a layover
OrariVoli == {<<6 * 60, 7 * 60>>, <<10 * 60, 11 * 60>>}

\* the seats requested: none, 0, the seats of the larger aircraft, one more
PostiRichiesti == {Nessuno, 0, 2, 3}

VoloFormVoli ==
    {[data_partenza |-> 0, ora_partenza |-> o[1],
      data_arrivo |-> 0, ora_arrivo |-> o[2],
      posti_disponibili |-> p,
      id_aereo |-> a,
      aeroporto_partenza |-> t[1], aeroporto_destinazione |-> t[2],
      prezzo_economy |-> 100, prezzo_business |-> 150, prezzo_first |-> 250] :
         t \in RotteVoli, o \in OrariVoli, p \in PostiRichiesti, a \in Aerei}

QueryVoli ==
    [partenza : {1}, destinazione : {2, 3}, data : {0}, sort : {<< >>}]

NextVoli ==
    \/ \E f \in VoloFormVoli : gestisci_voli(f)
    \/ \E q \in QueryVoli : search_flights(q)

SpecVoli == Init /\ [][NextVoli]_vars

(***************************************************************************)
(* The sorting specification: catalogues of at most MaxVoliSort flights of *)
(* day 0, created through gestisci_voli with fares and schedules that make *)
(* itineraries differ and tie in price and in duration; one search from    *)
(* airport 1 to airport 2 with each value of the sort argument.            *)
(***************************************************************************)
\* flights of a catalogue of the sorting specification
MaxVoliSort == 3

\* <<origin, destination, departure, arrival, economy fare>>
OrariSort ==
    {<<1, 2, 8 * 60, 10 * 60, 300>>, <<1, 2, 8 * 60, 14 * 60, 100>>,
     <<1, 2, 9 * 60, 14 * 60 + 30, 200>>,
     <<1, 3, 6 * 60, 7 * 60, 50>>, <<1, 3, 6 * 60, 8 * 60, 100>>,
     <<3, 2, 10 * 60, 11 * 60, 50>>, <<3, 2, 10 * 60, 12 * 60, 150>>}

\* the VoloForm an airline submits for an entry of OrariSort
VoloFormSort(o) ==
    [data_partenza |-> 0, ora_partenza |-> o[3],
     data_arrivo |-> 0, ora_arrivo |-> o[4],
     posti_disponibili |-> 0,
     id_aereo |-> 1,
     aeroporto_partenza |-> o[1], aeroporto_destinazione |-> o[2],
     prezzo_economy |-> o[5], prezzo_business |-> o[5] + 50,
     prezzo_first |-> o[5] + 100]

CataloghiSort ==
    UNION {[1..n -> {NuovoVolo(VoloFormSort(o)) : o \in OrariSort}] :
               n \in 0..MaxVoliSort}

InitSort ==
    /\ voli \in CataloghiSort
    /\ posti_iniziali = [v \in 1..Len(voli) |-> voli[v].posti_disponibili]
    /\ biglietti = << >>
    /\ InitRichieste
    /\ query = NoQuery
    /\ results = << >>
    /\ ricerca = NoRicerca
    /\ NessunInventario

QuerySort ==
    [partenza : {1}, destinazione : {2}, data : {0},
     sort : {<< >>, <<"prezzo">>, <<"durata">>, <<"soste">>, <<"arrivo">>}]

NextSort == \E q \in QuerySort : search_flights(q)

SpecSort == InitSort /\ [][NextSort]_vars

(***************************************************************************)
(* The concurrent specification: three one-seat flights, a direct one and  *)
(* the two legs of a connection; purchase requests run while one search    *)
(* from airport 1 to airport 2 issues its queries.                         *)
(***************************************************************************)
VoloConcorrente(o) == [NuovoVolo(VoloFormSort(o)) EXCEPT !.posti_disponibili = 1]

InitConcorrente ==
    /\ voli = <<VoloConcorrente(<<1, 2, 8 * 60, 10 * 60, 300>>),
                VoloConcorrente(<<1, 3, 6 * 60, 7 * 60, 50>>),
                VoloConcorrente(<<3, 2, 10 * 60, 11 * 60, 50>>)>>
    /\ posti_iniziali = <<1, 1, 1>>
    /\ biglietti = << >>
    /\ InitRichieste
    /\ query = NoQuery
    /\ results = << >>
    /\ ricerca = NoRicerca
    /\ NessunInventario

QueryConcorrente ==
    [partenza : {1}, destinazione : {1, 2}, data : {0}, sort : {<<"prezzo">>}]

NextConcorrente ==
    \/ \E r \in Richieste, v \in 1..3 :
           Acquista(r, v, [classe |-> "economy", extra |-> << >>], FALSE)
    \/ \E r \in Richieste : Commit(r)
    \/ \E r \in Richieste : Errore(r)
    \/ \E q \in QueryConcorrente : RicercaDiretti(q)
    \/ RicercaFirstLeg
    \/ RicercaSecondLeg

SpecConcorrente == InitConcorrente /\ [][NextConcorrente]_vars

(***************************************************************************)
(* Properties of the booking specification.                                *)
(***************************************************************************)
\* the requests that reached the seat decrement of flight v and returned
Chiamate(v) ==
    {r \in Richieste : /\ pc[r] = "done"
                       /\ volo_id[r] = v
                       /\ esito[r] \in {"Ticket", "SoldOut", "PurchaseFailed"}}

ConEsito(v, e) == {r \in Chiamate(v) : esito[r] = e}

InCorso(v) == {r \in Richieste : pc[r] = "reserved" /\ volo_id[r] = v}

BigliettiDi(v) == {i \in 1..Len(biglietti) : biglietti[i].id_volo = v}

\* more purchase calls than seats were made for flight v, all have returned
\* and none hit a storage failure
PiuChiamateChePosti(v) ==
    /\ InCorso(v) = {}
    /\ ConEsito(v, "PurchaseFailed") = {}
    /\ Cardinality(Chiamate(v)) > posti_iniziali[v]

\* C1: no overselling.  When N+k (k >= 1) purchase calls for a flight
\* created with N seats have run, in any interleaving and without storage
\* failure, exactly N of them hold a ticket for that flight, the other k
\* reported SoldOut and the flight has 0 seats left.
C1_NoOverselling ==
    \A v \in IdVoli :
        PiuChiamateChePosti(v) =>
            /\ Cardinality(ConEsito(v, "Ticket")) = posti_iniziali[v]
            /\ Cardinality(ConEsito(v, "SoldOut"))
                   = Cardinality(Chiamate(v)) - posti_iniziali[v]
            /\ \A r \in ConEsito(v, "Ticket") : id_biglietto[r] \in BigliettiDi(v)
            /\ \A r \in ConEsito(v, "SoldOut") : id_biglietto[r] = 0
            /\ voli[v].posti_disponibili = 0

C1_Witness ==
    \E v \in IdVoli :
        /\ PiuChiamateChePosti(v)
        /\ ConEsito(v, "Ticket") # {}
        /\ ConEsito(v, "SoldOut") # {}

\* C2: seat/ticket conservation.  In every committed state the number of
\* tickets of a flight equals the seats it was created with minus the seats
\* it has left, whatever requests failed and rolled back.
C2_Conservation ==
    \A v \in IdVoli :
        Cardinality(BigliettiDi(v)) = posti_iniziali[v] - voli[v].posti_disponibili

\* a request rolled back after its decrement, another one bought the seat
C2_Witness ==
    \E r, q \in Richieste :
        /\ esito[r] = "PurchaseFailed" /\ updated_rows[r] = 1 /\ id_biglietto[r] = 0
        /\ esito[q] = "Ticket" /\ volo_id[q] = volo_id[r]

\* the seats of flight v are those it was created with minus the tickets
\* of the requests other than r
PostiSenza(r, v) ==
    voli[v].posti_disponibili
        = posti_iniziali[v]
            - Cardinality({q \in Richieste \ {r} :
                               volo_id[q] = v /\ id_biglietto[q] # 0})

\* C3: atomicity on failure.  A purchase that reported PurchaseFailed after
\* its seat decrement succeeded has left no ticket, and the seats of its
\* flight are what they would be without the call.
C3_AtomicityOnFailure ==
    \A r \in Richieste :
        (pc[r] = "done" /\ esito[r] = "PurchaseFailed" /\ updated_rows[r] = 1) =>
            /\ id_biglietto[r] = 0
            /\ PostiSenza(r, volo_id[r])

\* C4: every flight has between 0 seats left and the seats of its aircraft.
C4_SeatsInRange ==
    \A v \in IdVoli :
        /\ 0 <= voli[v].posti_disponibili
        /\ voli[v].posti_disponibili <= PostiTotali(voli[v].id_aereo)

\* a flight created full and sold down to its last seat
C4_Witness ==
    \E v \in IdVoli :
        /\ posti_iniziali[v] = PostiTotali(voli[v].id_aereo)
        /\ voli[v].posti_disponibili = 0
        /\ BigliettiDi(v) # {}

\* request r executes its conditional UPDATE in this step
EsegueUpdate(r) ==
    /\ pc[r] = "idle"
    /\ pc'[r] # "idle"
    /\ esito'[r] \in {"", "SoldOut", "Ticket"}

\* C5: SoldOut has no effects.  A purchase whose decrement finds the flight
\* with 0 seats reports SoldOut, and a purchase reports SoldOut only then;
\* it creates no ticket and leaves every flight and every ticket as it was.
C5_SoldOutNoEffects ==
    [][\A r \in Richieste :
          /\ (EsegueUpdate(r) /\ voli[volo_id'[r]].posti_disponibili = 0)
                 => (pc'[r] = "done" /\ esito'[r] = "SoldOut")
          /\ (esito[r] # "SoldOut" /\ esito'[r] = "SoldOut")
                 => /\ voli[volo_id'[r]].posti_disponibili = 0
                    /\ voli' = voli
                    /\ biglietti' = biglietti
                    /\ id_biglietto'[r] = 0]_vars

C5_Witness ==
    \E r \in Richieste :
        /\ esito[r] = "SoldOut"
        /\ id_biglietto[r] = 0
        /\ voli[volo_id[r]].posti_disponibili = 0
        /\ \E w \in IdVoli : voli[w].posti_disponibili > 0

\* posti_disponibili in the newest version of the row of flight v: the
\* committed value less the decrements not committed yet
RigaCorrente(v) ==
    voli[v].posti_disponibili - Cardinality(InCorso(v))

\* the same in the next state
RigaSuccessiva(v) ==
    voli'[v].posti_disponibili
        - Cardinality({r \in Richieste : pc'[r] = "reserved" /\ volo_id'[r] = v})

\* C6: reserve_seat is one atomic conditional step.  The UPDATE of a request
\* matches a row exactly when the newest version of the row has seats left;
\* then that version loses exactly one seat, otherwise it is unchanged, and
\* the rows of the other flights are never touched.
C6_ReserveSeatAtomic ==
    [][\A r \in Richieste :
          EsegueUpdate(r) =>
              /\ (updated_rows'[r] = 1) <=> (RigaCorrente(volo_id'[r]) > 0)
              /\ updated_rows'[r] \in {0, 1}
              /\ RigaSuccessiva(volo_id'[r])
                     = RigaCorrente(volo_id'[r]) - updated_rows'[r]
              /\ \A w \in IdVoli \ {volo_id'[r]} : RigaSuccessiva(w) = RigaCorrente(w)]_vars

\* two requests went for the last seat of a flight: one decrement matched,
\* the other did not
C6_Witness ==
    \E r, q \in Richieste :
        /\ r # q /\ volo_id[r] = volo_id[q]
        /\ pc[r] # "idle" /\ updated_rows[r] = 1
        /\ pc[q] = "done" /\ esito[q] = "SoldOut" /\ updated_rows[q] = 0
        /\ posti_iniziali[volo_id[r]] = 1

(***************************************************************************)
(* Properties of the search specification.                                 *)
(***************************************************************************)
Cercato == query # NoQuery /\ FlightSearchFormValido(query)

RisultatiDiTipo(t) == {i \in 1..Len(results) : results[i].type = t}

\* minutes between the arrival of v1 and the departure of v2
Scalo(v1, v2) == DatetimePartenza(v2) - DatetimeArrivo(v1)

\* v1 and v2 form a connection for the query but for the layover: v1 leaves
\* the origin on the date, v2 goes from v1's destination to the
\* destination, both have seats
CoppiaCandidata(v1, v2) ==
    /\ voli[v1].aeroporto_partenza = query.partenza
    /\ voli[v1].data_partenza = query.data
    /\ voli[v1].posti_disponibili > 0
    /\ voli[v2].aeroporto_partenza = voli[v1].aeroporto_destinazione
    /\ voli[v2].aeroporto_destinazione = query.destinazione
    /\ voli[v2].posti_disponibili > 0

Restituita(v1, v2) ==
    {i \in RisultatiDiTipo("connecting") : results[i].voli = <<v1, v2>>}

\* C7: layover enforcement.  Every connecting itinerary returned has its
\* second leg leaving at least 2 hours after the first leg arrives; a
\* candidate pair with exactly 2h is returned, one with 1h59m is not.
C7_Layover ==
    /\ \A i \in RisultatiDiTipo("connecting") :
           Scalo(results[i].voli[1], results[i].voli[2]) >= 2 * 60
    /\ Cercato =>
           \A v1, v2 \in IdVoli :
               CoppiaCandidata(v1, v2) =>
                   /\ Scalo(v1, v2) = 2 * 60 => Restituita(v1, v2) # {}
                   /\ Scalo(v1, v2) = 2 * 60 - 1 => Restituita(v1, v2) = {}

\* a pair with a layover of exactly two hours was returned
C7_Witness ==
    \E i \in RisultatiDiTipo("connecting") :
        Scalo(results[i].voli[1], results[i].voli[2]) = 2 * 60

\* C8: every connecting itinerary returned has exactly two legs, the first
\* leaving the origin on the date, the second going from the first's
\* destination to the destination, both with seats.
C8_ConnectingShape ==
    \A i \in RisultatiDiTipo("connecting") :
        /\ Len(results[i].voli) = 2
        /\ results[i].voli[1] \in IdVoli /\ results[i].voli[2] \in IdVoli
        /\ voli[results[i].voli[1]].aeroporto_partenza = query.partenza
        /\ voli[results[i].voli[1]].data_partenza = query.data
        /\ voli[results[i].voli[1]].aeroporto_destinazione
               = voli[results[i].voli[2]].aeroporto_partenza
        /\ voli[results[i].voli[2]].aeroporto_destinazione = query.destinazione
        /\ voli[results[i].voli[1]].posti_disponibili > 0
        /\ voli[results[i].voli[2]].posti_disponibili > 0

\* a connection was returned from a catalogue of two flights
C8_Witness ==
    /\ RisultatiDiTipo("connecting") # {}
    /\ Len(voli) = 2

\* C9: the direct results are exactly the flights with the origin, the
\* destination and the date of the query and seats left, each once, with
\* stops = 0.
C9_DirectExact ==
    /\ \A i \in RisultatiDiTipo("direct") :
           /\ results[i].stops = 0
           /\ Len(results[i].voli) = 1
           /\ results[i].voli[1] \in IdVoli
    /\ Cercato =>
           \A v \in IdVoli :
               Cardinality({i \in RisultatiDiTipo("direct") : results[i].voli = <<v>>})
                   = IF /\ voli[v].aeroporto_partenza = query.partenza
                        /\ voli[v].aeroporto_destinazione = query.destinazione
                        /\ voli[v].data_partenza = query.data
                        /\ voli[v].posti_disponibili > 0
                     THEN 1 ELSE 0

\* one flight of the route and date was returned, a sold out one was not
C9_Witness ==
    /\ Cardinality(RisultatiDiTipo("direct")) = 1
    /\ \E v \in IdVoli :
           /\ voli[v].aeroporto_partenza = query.partenza
           /\ voli[v].aeroporto_destinazione = query.destinazione
           /\ voli[v].data_partenza = query.data
           /\ voli[v].posti_disponibili = 0

\* C10: connecting search is complete.  Every candidate pair whose second
\* leg leaves 2 hours or more after the first arrives, however much later,
\* is returned as exactly one connecting itinerary.
C10_ConnectingComplete ==
    Cercato =>
        \A v1, v2 \in IdVoli :
            (CoppiaCandidata(v1, v2) /\ Scalo(v1, v2) >= 2 * 60)
                => Cardinality(Restituita(v1, v2)) = 1

\* a pair was returned whose second leg leaves more than a day after the
\* first arrives
C10_Witness ==
    \E v1, v2 \in IdVoli :
        /\ Cercato
        /\ CoppiaCandidata(v1, v2)
        /\ Scalo(v1, v2) > 24 * 60
        /\ Restituita(v1, v2) # {}

(***************************************************************************)
(* Properties of the sorting specification.                                *)
(***************************************************************************)
\* C11: itinerary pricing.  A direct itinerary costs the economy fare of its
\* flight; a connecting itinerary costs the sum of the economy fares of its
\* two legs, has stops = 1 and a layover equal to the departure of the
\* second leg minus the arrival of the first.
C11_Pricing ==
    \A i \in 1..Len(results) :
        IF results[i].type = "direct"
        THEN results[i].prezzo = voli[results[i].voli[1]].prezzo_economy
        ELSE /\ results[i].prezzo
                   = voli[results[i].voli[1]].prezzo_economy
                       + voli[results[i].voli[2]].prezzo_economy
             /\ results[i].stops = 1
             /\ results[i].layover = Scalo(results[i].voli[1], results[i].voli[2])

\* a direct itinerary and a connection with legs of different fares
C11_Witness ==
    /\ RisultatiDiTipo("direct") # {}
    /\ \E i \in RisultatiDiTipo("connecting") :
           /\ voli[results[i].voli[1]].prezzo_economy
                  # voli[results[i].voli[2]].prezzo_economy
           /\ results[i].layover > 2 * 60

\* the fares of the results, in the order returned
PrezziRestituiti == [i \in 1..Len(results) |-> results[i].prezzo]

\* the catalogue holds three direct flights priced 300, 100, 200
Esempio300_100_200 ==
    /\ Len(voli) = 3
    /\ \A v \in IdVoli : voli[v].aeroporto_partenza = query.partenza
                            /\ voli[v].aeroporto_destinazione = query.destinazione
    /\ [v \in 1..3 |-> voli[v].prezzo_economy] = <<300, 100, 200>>

\* C15: sorted by price, or with no sort key given, the results are in
\* non-decreasing order of price; itineraries priced 300, 100, 200 come out
\* as 100, 200, 300.
C15_SortPrice ==
    (Cercato /\ query.sort \in {<< >>, <<"prezzo">>}) =>
        /\ \A i, j \in 1..Len(results) :
               i < j => results[i].prezzo <= results[j].prezzo
        /\ Esempio300_100_200 => PrezziRestituiti = <<100, 200, 300>>

\* the example, searched without a sort key
C15_Witness ==
    /\ Cercato /\ query.sort = << >>
    /\ Esempio300_100_200
    /\ PrezziRestituiti = <<100, 200, 300>>

\* C16: sorted by stops, every direct itinerary precedes every connecting
\* itinerary.
C16_SortStops ==
    (Cercato /\ query.sort = <<"soste">>) =>
        \A i, j \in 1..Len(results) :
            (results[i].stops = 0 /\ results[j].stops = 1) => i < j

C16_Witness ==
    /\ Cercato /\ query.sort = <<"soste">>
    /\ RisultatiDiTipo("direct") # {}
    /\ RisultatiDiTipo("connecting") # {}

\* arrival of the last leg minus departure of the first, minutes
DurataItinerario(x) ==
    DatetimeArrivo(x.voli[Len(x.voli)]) - DatetimePartenza(x.voli[1])

\* the value the results are ordered by under the sort key k
Valore(x, k) ==
    CASE k = "prezzo" -> x.prezzo
      [] k = "durata" -> DurataItinerario(x)
      [] k = "soste" -> x.stops

\* the place of an itinerary in the enumeration: the direct ones in query
\* order, then the connections by first leg and by second leg
Rango(x) ==
    IF x.type = "direct" THEN x.voli[1]
    ELSE Len(voli) + x.voli[1] * (Len(voli) + 1) + x.voli[2]

\* C17: sorting is stable.  Under each of the keys price, duration and
\* stops, two results with the same key value keep the order in which the
\* enumeration produced them.
C17_Stable ==
    (Cercato /\ query.sort \in {<<"prezzo">>, <<"durata">>, <<"soste">>}) =>
        \A i, j \in 1..Len(results) :
            (i < j /\ Valore(results[i], query.sort[1]) = Valore(results[j], query.sort[1]))
                => Rango(results[i]) < Rango(results[j])

\* sorting by duration moved an itinerary before one enumerated earlier
\* and left two different itineraries of equal duration
C17_Witness ==
    /\ Cercato /\ query.sort = <<"durata">>
    /\ \E i, j \in 1..Len(results) :
           i < j /\ Rango(results[i]) > Rango(results[j])
    /\ \E i, j \in 1..Len(results) :
           /\ i < j
           /\ results[i] # results[j]
           /\ DurataItinerario(results[i]) = DurataItinerario(results[j])

\* C27: a sort key other than price, duration and stops sorts nothing.  The
\* results stay in enumeration order: the direct itineraries first, then
\* the connections in first-leg, second-leg order.
C27_UnknownSortKey ==
    (Cercato /\ query.sort # << >>
             /\ query.sort[1] \notin {"prezzo", "durata", "soste"}) =>
        /\ \A i, j \in 1..Len(results) :
               i < j => Rango(results[i]) < Rango(results[j])
        /\ \A i, j \in 1..Len(results) :
               (results[i].type = "connecting" /\ results[j].type = "direct")
                   => j < i

\* under an unrecognised key a direct itinerary stays before a cheaper
\* connection
C27_Witness ==
    /\ Cercato /\ query.sort = <<"arrivo">>
    /\ \E i, j \in 1..Len(results) :
           /\ i < j
           /\ results[i].type = "direct" /\ results[j].type = "connecting"
           /\ results[i].prezzo > results[j].prezzo

\* the airport where the connecting itinerary x changes flight
AeroportoIntermedio(x) == voli[x.voli[1]].aeroporto_destinazione

\* C26: no degenerate connection.  Every flight has an origin different
\* from its destination and the query too, and so every connecting
\* itinerary returned changes flight at an airport that is neither the
\* origin nor the destination of the query.
C26_IntermediateDistinct ==
    /\ \A v \in IdVoli :
           voli[v].aeroporto_partenza # voli[v].aeroporto_destinazione
    /\ Cercato =>
           \A i \in RisultatiDiTipo("connecting") :
               /\ voli[results[i].voli[2]].aeroporto_partenza
                      = AeroportoIntermedio(results[i])
               /\ AeroportoIntermedio(results[i]) # query.partenza
               /\ AeroportoIntermedio(results[i]) # query.destinazione

\* a connection from 1 to 2 through airport 3 is returned
C26_Witness ==
    /\ Cercato /\ query.partenza = 1 /\ query.destinazione = 2
    /\ \E i \in RisultatiDiTipo("connecting") :
           AeroportoIntermedio(results[i]) = 3

\* the fields of the flight form f other than the seats pass validation
AltriCampiValidi(f) ==
    /\ f.aeroporto_destinazione # f.aeroporto_partenza
    /\ f.data_arrivo >= f.data_partenza
    /\ (f.data_arrivo = f.data_partenza => f.ora_arrivo > f.ora_partenza)
    /\ f.prezzo_economy > 0 /\ f.prezzo_business > 0 /\ f.prezzo_first > 0

\* C28: seats default at flight creation.  A form that asks for 0 seats
\* or for none creates the flight with the seats of the aircraft, so no
\* flight starts with 0 seats; a form that asks for more seats than the
\* aircraft has creates no flight.
C28_SeatsDefault ==
    [][\A f \in VoloFormVoli :
          (gestisci_voli(f) /\ ~is_rate_limited(Compagnia) /\ AltriCampiValidi(f)) =>
              IF f.posti_disponibili \in {0, Nessuno}
              THEN voli' = Append(voli, [NuovoVolo(f) EXCEPT
                                 !.posti_disponibili = PostiTotali(f.id_aereo)])
              ELSE f.posti_disponibili > PostiTotali(f.id_aereo) => voli' = voli]_vars

\* C22: a purchase for a flight that does not exist, at the lookup that
\* opens the handler or at the reload inside the transaction, is answered
\* FlightNotFound; it creates no ticket and changes no seat.
C22_FlightNotFound ==
    [][\A r \in Richieste :
          (/\ pc[r] = "idle" /\ pc'[r] = "done"
           /\ \/ volo_id'[r] \notin IdVoli
              \/ volo_id'[r] \notin 1..Len(voli'))
          => /\ esito'[r] = "FlightNotFound"
             /\ updated_rows'[r] = 0 /\ id_biglietto'[r] = 0
             /\ Len(biglietti') <= Len(biglietti)
             /\ \A w \in 1..Len(voli') : voli'[w] = voli[w]]_vars

\* request r is posted in this step
Inviata(r) == pc[r] = "idle" /\ pc'[r] # "idle"

\* request r is answered in this step with report e
Risposta(r, e) == pc[r] # "done" /\ pc'[r] = "done" /\ esito'[r] = e

\* C29: rate limiting of purchases.  With 10 failed attempts of the
\* passenger recorded within the last 300 seconds a purchase POST is
\* rejected before the seat decrement: no seat changes, no ticket is made;
\* with fewer, or once they have aged out, it is not rejected for the
\* limit.  Validation failures and failed purchases are recorded, a sold
\* out flight is not, and a successful purchase clears the attempts.
C29_RateLimit ==
    [][\A r \in Richieste :
          LET k == Passeggero(r) IN
          /\ (Inviata(r) /\ Len(Recenti(k)) >= MaxAttempts) =>
                 /\ pc'[r] = "done"
                 /\ esito'[r] \in {"RateLimited", "FlightNotFound"}
                 /\ updated_rows'[r] = 0 /\ id_biglietto'[r] = 0
                 /\ UNCHANGED dbVars
          /\ (Inviata(r) /\ Len(Recenti(k)) < MaxAttempts) =>
                 esito'[r] # "RateLimited"
          /\ (Inviata(r) /\ esito'[r] \in {"Invalid", "PurchaseFailed"}) =>
                 attempts'[k] = Append(Recenti(k), now)
          /\ (Inviata(r) /\ esito'[r] \in {"SoldOut", "RateLimited"}) =>
                 attempts'[k] = Recenti(k)
          /\ (~Inviata(r) /\ Risposta(r, "PurchaseFailed")) =>
                 attempts'[k] = Append(attempts[k], now)
          /\ Risposta(r, "Ticket") => attempts'[k] = << >>]_vars

\* the passenger is turned away with 10 recent attempts on record, the
\* flight untouched
C29_Witness ==
    /\ pc[1] = "done" /\ esito[1] = "RateLimited"
    /\ Len(Recenti(Passeggero(1))) >= MaxAttempts
    /\ now > 0
    /\ voli[1].posti_disponibili = posti_iniziali[1] - Len(biglietti)

\* every row of the table has thresholds that validate
SoglieValide ==
    \A p \in Prodotti : validate(StatusThresholds(inventario[p]))

\* C24: the classification partitions the quantities.  With thresholds
\* 0 <= critical <= reorder, an evaluation gives every row exactly one of
\* the three statuses: green above the reorder point, orange above the
\* critical point and up to the reorder point, red below the critical
\* point.
C24_Partition ==
    [][\A risposte \in Risposte :
          (evaluate(risposte) /\ SoglieValide) =>
              \A p \in Prodotti :
                  LET q == inventario[p].quantity
                      r == inventario[p].reorder_point
                      c == inventario[p].critical_point
                      st == inventario'[p].status
                  IN  /\ st \in {"green", "orange", "red"}
                      /\ q > r => st = "green"
                      /\ (c < q /\ q <= r) => st = "orange"
                      /\ q < c => st = "red"
                      /\ decisioni'[p].status = st]_vars

\* an evaluated table with a row below its critical point and a row at
\* its reorder point, above the critical one
C24_Witness ==
    /\ inventario # << >>
    /\ inventario[1].status = "red"
    /\ inventario[1].quantity < inventario[1].critical_point
    /\ inventario[2].status = "orange"
    /\ inventario[2].quantity = inventario[2].reorder_point
    /\ inventario[2].quantity > inventario[2].critical_point

\* C25: the critical point is exclusive.  A row is red only when its
\* quantity is strictly below the critical point: a quantity equal to the
\* critical point is orange, and so is one equal to the reorder point.
C25_CriticalExclusive ==
    [][\A risposte \in Risposte :
          (evaluate(risposte) /\ SoglieValide) =>
              \A p \in Prodotti :
                  LET q == inventario[p].quantity
                      st == inventario'[p].status
                  IN  /\ st = "red" => q < inventario[p].critical_point
                      /\ q = inventario[p].critical_point => st = "orange"
                      /\ q = inventario[p].reorder_point => st = "orange"]_vars

\* the evaluation found product p red, or orange with the prompt
\* confirming the reorder
DaRiordinare(p) ==
    /\ p \in DOMAIN decisioni
    /\ \/ decisioni[p].status = "red"
       \/ /\ decisioni[p].status = "orange"
          /\ reorder_prompt
          /\ decisioni[p].reorder_confirmed

\* C30: reorders.  An evaluation never asks the prompt about a red row,
\* which is reordered automatically, and records the prompt's answer for an
\* orange row when a prompt is configured.  Every apply_reorders() after it
\* adds reorder_quantity to the rows found red or found orange and
\* confirmed, and leaves the others (green, orange declined or with no
\* prompt) as they are; a second call without a new evaluation adds again.
C30_Reorders ==
    [][/\ \A risposte \in Risposte :
             (evaluate(risposte) /\ SoglieValide) =>
                 \A p \in Prodotti :
                     LET st == inventario'[p].status IN
                     decisioni'[p] =
                         [status |-> st,
                          auto_reordered |-> (st = "red"),
                          reorder_confirmed |->
                              (st = "orange" /\ reorder_prompt /\ risposte[p])]
       /\ apply_reorders =>
             \A p \in Prodotti :
                 inventario'[p].quantity =
                     inventario[p].quantity
                         + (IF DaRiordinare(p) THEN inventario[p].reorder_quantity
                            ELSE 0)]_vars

\* a red row with reorder_quantity 1 has been reordered at least twice on
\* one evaluation, while an orange row that was declined kept its quantity
C30_Witness ==
    /\ inventario # << >> /\ decisioni # << >>
    /\ decisioni[1].status = "red"
    /\ inventario[1].reorder_quantity = 1
    /\ inventario[1].quantity >= inventario[1].critical_point + 2
    /\ decisioni[2].status = "orange" /\ ~decisioni[2].reorder_confirmed
    /\ reorder_prompt
    /\ inventario[2].reorder_quantity > 0
    /\ inventario[2].quantity = inventario[2].reorder_point

\* C18: sorted by duration, the results are in non-decreasing order of
\* duration: arrival minus departure for a direct itinerary, arrival of the
\* second leg minus departure of the first for a connection.
C18_SortDuration ==
    (Cercato /\ query.sort = <<"durata">>) =>
        \A i, j \in 1..Len(results) :
            i < j => DurataItinerario(results[i]) <= DurataItinerario(results[j])

\* a connection came out before a longer direct itinerary
C18_Witness ==
    /\ Cercato /\ query.sort = <<"durata">>
    /\ \E i, j \in 1..Len(results) :
           /\ i < j
           /\ results[i].type = "connecting" /\ results[j].type = "direct"
           /\ DurataItinerario(results[i]) < DurataItinerario(results[j])

(***************************************************************************)
(* Properties of the purchase specification.                               *)
(***************************************************************************)
\* the fare of a class on flight v
Tariffa(v, classe) ==
    CASE classe = "economy" -> voli[v].prezzo_economy
      [] classe = "business" -> voli[v].prezzo_business
      [] classe = "first" -> voli[v].prezzo_first

\* the sum of the costs of a set of extras
RECURSIVE CostoInsieme(_)
CostoInsieme(es) ==
    IF es = {} THEN 0
    ELSE LET e == CHOOSE x \in es : TRUE
         IN  Extra[e] + CostoInsieme(es \ {e})

\* the requests whose purchase went through
Riuscite == {r \in Richieste : pc[r] = "done" /\ esito[r] = "Ticket"}

\* C12: every persisted ticket is priced at the fare of its class on its
\* flight plus the costs of the set of extras attached to it, each counted
\* once, whatever list of extra ids was requested (unknown ids, repeated
\* ids).
C12_TicketPrice ==
    \A i \in 1..Len(biglietti) :
        /\ biglietti[i].classe \in Classi
        /\ biglietti[i].extra \subseteq DOMAIN Extra
        /\ biglietti[i].prezzo
               = Tariffa(biglietti[i].id_volo, biglietti[i].classe)
                   + CostoInsieme(biglietti[i].extra)

\* a ticket with two extras was bought with a list holding an unknown id,
\* and a purchase with a repeated id has returned
C12_Witness ==
    /\ \E r \in Riuscite :
           /\ form[r].extra = <<1, 3, 2>>
           /\ biglietti[id_biglietto[r]].extra = {1, 2}
    /\ \E q \in Richieste : pc[q] = "done" /\ form[q].extra = <<1, 1>>

\* the list without the ids of extras that do not exist
SenzaIgnoti(ids) == SelectSeq(ids, LAMBDA e : e = 1 \/ e = 2)

\* C13: unknown extra ids never abort a purchase.  A purchase whose list
\* holds ids of extras that do not exist can complete exactly when the list
\* without them can, and two purchases that differ only in such ids end the
\* same: ticket price, attached extras, one seat taken.
C13_UnknownExtrasSkipped ==
    /\ \A r \in Richieste :
           pc[r] = "reserved" =>
               (ENABLED Commit(r)
                    <=> \A i, j \in 1..Len(SenzaIgnoti(form[r].extra)) :
                            i < j => SenzaIgnoti(form[r].extra)[i]
                                         # SenzaIgnoti(form[r].extra)[j])
    /\ \A r, q \in Riuscite :
           (/\ volo_id[r] = volo_id[q]
            /\ form[r].classe = form[q].classe
            /\ SenzaIgnoti(form[r].extra) = SenzaIgnoti(form[q].extra)) =>
               /\ biglietti[id_biglietto[r]].prezzo = biglietti[id_biglietto[q]].prezzo
               /\ biglietti[id_biglietto[r]].extra = biglietti[id_biglietto[q]].extra
               /\ updated_rows[r] = 1 /\ updated_rows[q] = 1

\* the same purchase went through with and without an unknown id in front
C13_Witness ==
    \E r, q \in Riuscite :
        /\ form[r].extra = <<3, 1>> /\ form[q].extra = <<1>>
        /\ form[r].classe = form[q].classe
        /\ biglietti[id_biglietto[r]].extra = {1}

\* the requests that asked for a class that is not economy, business or
\* first on a flight that still has a seat
ClasseIgnota ==
    {r \in Richieste : /\ pc[r] = "done"
                       /\ form[r].classe \notin {"economy", "business", "first"}
                       /\ volo_id[r] \in IdVoli
                       /\ voli[volo_id[r]].posti_disponibili > 0}

\* C14 as claimed: a purchase with an unknown or empty class on a flight
\* with a seat available succeeds and yields a ticket priced at the
\* economy fare of the flight plus extras.
C14_UnknownClassEconomy ==
    \A r \in ClasseIgnota :
        /\ esito[r] = "Ticket"
        /\ id_biglietto[r] \in 1..Len(biglietti)
        /\ biglietti[id_biglietto[r]].prezzo
               = voli[volo_id[r]].prezzo_economy
                   + CostoInsieme(biglietti[id_biglietto[r]].extra)

\* C14 as amended: a purchase with an unknown or empty class is refused
\* before the seat decrement, by the validation of the form (or by the rate
\* limit before it): it creates no ticket and takes no seat; every ticket
\* has one of the three classes.
C14_UnknownClassRejected ==
    /\ \A r \in ClasseIgnota :
           /\ esito[r] \in {"Invalid", "RateLimited"}
           /\ id_biglietto[r] = 0
           /\ updated_rows[r] = 0
    /\ \A i \in 1..Len(biglietti) :
           biglietti[i].classe \in {"economy", "business", "first"}
    /\ \A v \in IdVoli :
           voli[v].posti_disponibili = posti_iniziali[v] - Cardinality(BigliettiDi(v))

\* an unknown and an empty class were refused while the flight had seats
C14_Witness ==
    /\ \E r \in ClasseIgnota : form[r].classe = "premium"
    /\ \E r \in ClasseIgnota : form[r].classe = ""

(***************************************************************************)
(* Properties of the concurrent specification.                             *)
(***************************************************************************)
\* the search request is at work in this step
PassoDiRicerca == ricerca' # ricerca \/ results' # results \/ query' # query

\* C19: search is read-only.  No step of a search, whatever purchases it
\* is interleaved with, changes the seats of a flight or creates or changes
\* a ticket, committed or pending in a purchase.
C19_SearchReadOnly ==
    [][PassoDiRicerca =>
          /\ voli' = voli
          /\ biglietti' = biglietti
          /\ posti_iniziali' = posti_iniziali
          /\ updated_rows' = updated_rows
          /\ id_biglietto' = id_biglietto
          /\ pc' = pc]_vars

\* a search returned results after tickets were committed between its
\* queries, while a purchase was holding a seat
C19_Witness ==
    /\ ricerca.pc = "done"
    /\ ricerca.fine > ricerca.inizio
    /\ results # << >>
    /\ \E r \in Richieste : pc[r] = "reserved"

\* C21: the committed seats of a flight never go up.  No step of a search
\* or of a purchase, whether it succeeds, finds the flight sold out or
\* fails and rolls back, raises the committed seats_remaining of a flight.
C21_SeatsMonotonic ==
    [][\A v \in IdVoli :
          voli'[v].posti_disponibili <= voli[v].posti_disponibili]_vars

\* a purchase failed after its decrement and was rolled back, another
\* bought a seat, and a search has run
C21_Witness ==
    /\ ricerca.pc = "done"
    /\ \E r \in Richieste :
           pc[r] = "done" /\ esito[r] = "PurchaseFailed" /\ updated_rows[r] = 1
    /\ \E r \in Richieste : pc[r] = "done" /\ esito[r] = "Ticket"

\* request r completes a purchase in this step
Acquistato(r) == esito[r] # "Ticket" /\ esito'[r] = "Ticket"

\* C23: a successful purchase takes exactly one seat of the purchased
\* flight, creates exactly one ticket for that flight and traveler, and
\* leaves the seats of every other flight and all earlier tickets as they
\* were.
C23_PurchaseFrame ==
    [][\A r \in Richieste :
          Acquistato(r) =>
              /\ Len(voli') = Len(voli)
              /\ voli'[volo_id[r]].posti_disponibili
                     = voli[volo_id[r]].posti_disponibili - 1
              /\ \A w \in IdVoli \ {volo_id[r]} : voli'[w] = voli[w]
              /\ Len(biglietti') = Len(biglietti) + 1
              /\ SubSeq(biglietti', 1, Len(biglietti)) = biglietti
              /\ biglietti'[Len(biglietti')].id_volo = volo_id[r]
              /\ biglietti'[Len(biglietti')].id_passeggero = Passeggero(r)
              /\ id_biglietto'[r] = Len(biglietti')]_vars

\* the second leg of the connection was bought after the direct flight:
\* the first leg still has its seat and the earlier ticket is in place
C23_Witness ==
    /\ Len(biglietti) = 2
    /\ biglietti[1].id_volo = 1 /\ biglietti[2].id_volo = 3
    /\ voli[2].posti_disponibili = 1
    /\ voli[1].posti_disponibili = 0 /\ voli[3].posti_disponibili = 0

\* the seats flight v had left when k tickets had been committed
PostiA(k, v) ==
    posti_iniziali[v] - Cardinality({i \in 1..k : biglietti[i].id_volo = v})

\* the itineraries the search algorithm yields on the seats at instant k
Attesi(k) ==
    {<<v>> : v \in {w \in IdVoli :
                       /\ voli[w].aeroporto_partenza = query.partenza
                       /\ voli[w].aeroporto_destinazione = query.destinazione
                       /\ voli[w].data_partenza = query.data
                       /\ PostiA(k, w) > 0}}
    \cup
    {<<c[1], c[2]>> : c \in {d \in IdVoli \X IdVoli :
                       /\ voli[d[1]].aeroporto_partenza = query.partenza
                       /\ voli[d[1]].data_partenza = query.data
                       /\ PostiA(k, d[1]) > 0
                       /\ voli[d[2]].aeroporto_partenza
                              = voli[d[1]].aeroporto_destinazione
                       /\ voli[d[2]].aeroporto_destinazione = query.destinazione
                       /\ PostiA(k, d[2]) > 0
                       /\ Scalo(d[1], d[2]) >= 2 * 60}}

ItinerariRestituiti == {results[i].voli : i \in 1..Len(results)}

\* C20: a search concurrent with purchases observes a point-in-time
\* snapshot.  There is one instant between its first and its last query
\* such that the itineraries returned are those the algorithm yields on
\* the seats of all flights at that instant.
C20_Snapshot ==
    (ricerca.pc = "done" /\ Cercato) =>
        \E k \in ricerca.inizio..ricerca.fine : ItinerariRestituiti = Attesi(k)

====
